---- MODULE Spec2Model ----
(***************************************************************************)
(* Mooring Data Generator Flask API (src/app.py).                          *)
(*                                                                         *)
(* The service holds one global port worker (None until the first          *)
(* successful GET /api/port), regenerates it on GET /api/port, advances    *)
(* its sensor readings on POST /api/port/update and serves derived read    *)
(* views of it.  The generator package mooring_data_generator (name pool,  *)
(* topology builder, sensor readings, update engine) is imported by        *)
(* app.py; its behaviour is taken from the design document (spec.md,       *)
(* sections 3 and 4).                                                      *)
(*                                                                         *)
(* Optional values (Python None) are sequences of length 0 or 1.           *)
(* A name is the index of the name in the pool of its category, in the     *)
(* order the builder draws them.                                           *)
(***************************************************************************)
EXTENDS Integers, Sequences, FiniteSets, TLC

\* ------------------------------------------------------------------ bounds
\* Ranges the topology builder draws from.
MaxBerths == 2
MaxBollards == 1
MaxHooks == 2
\* Largest step of the tension random walk in one tick.
MaxDelta == 30
\* Radar distance up to which a docked ship counts as close.
ProximityThreshold == 0
\* GET /api/port requests counted by generation_requests before it saturates.
MaxGenerations == 2

\* ------------------------------------------------- constants of src/app.py
CriticalMin == 86
DangerousMin == 70
DangerousMax == 85
AttentionMin == 40
AttentionMax == 69

\* Tension readings the sensors report, all within [0, 100].
Tensions == {60, 90}
\* Distances a radar reports; the largest is the neutral distance of a berth
\* without a ship.
Distances == {0, 1}
\* Signed distance changes a radar draws in one tick.
DistanceChanges == {-1, 0, 1}
\* Values of datetime.now() a download can be stamped with.
Instants == {1, 2}
\* Port names the builder picks from.
PortNames == {"Port Hedland"}

None == <<>>
Some(x) == <<x>>
IsNone(o) == o = <<>>
Val(o) == o[1]

Min(a, b) == IF a <= b THEN a ELSE b
Max(a, b) == IF a >= b THEN a ELSE b
Least(S) == CHOOSE x \in S : \A y \in S : x <= y
Greatest(S) == CHOOSE x \in S : \A y \in S : x >= y

RECURSIVE SumSeq(_)
SumSeq(s) == IF s = <<>> THEN 0 ELSE Head(s) + SumSeq(Tail(s))

RECURSIVE Concat(_)
Concat(ss) == IF ss = <<>> THEN <<>> ELSE Head(ss) \o Concat(Tail(ss))

\* All sequences whose i-th element is drawn from sets[i].
RECURSIVE SeqProduct(_)
SeqProduct(sets) ==
  IF sets = <<>> THEN {<<>>}
  ELSE {<<x>> \o rest : x \in Head(sets), rest \in SeqProduct(Tail(sets))}

VARIABLES
  port_worker,          \* the global port worker: None or Some([data |-> PortData])
  used,                 \* names the builder module has handed out, per category
  response,             \* the response of the request served last
  tick,                 \* position of the update in flight (0: none)
  rewritten,            \* the update in flight has changed a leaf already
  generation_requests   \* GET /api/port requests counted so far (saturating)

vars == <<port_worker, used, response, tick, rewritten, generation_requests>>

\* ------------------------------------------------------- name/ID pool (4.1)
Categories == {"ship", "berth", "bollard", "hook"}

\* The candidate names of each category.
NamePool ==
  [c \in Categories |->
     CASE c = "ship" -> {1}
       [] c = "berth" -> {1, 2}
       [] c = "bollard" -> {1, 2}
       [] c = "hook" -> {1, 2}]

PoolSize == [c \in Categories |-> Cardinality(NamePool[c])]

\* No name handed out yet.
FreshPool == [c \in Categories |-> 0]

\* reset_generator_state without the reload: the used-name lists survive.
reset_generator_state_kept(pool) == pool

\* importlib.reload(builder_module): the used-name lists start empty again.
reset_generator_state(pool) == FreshPool

\* --------------------------------------------- sensor reading generator (4.2)
\* A fresh hook: the line is attached or not; an attached line has a tension
\* reading; a fault is independent and leaves the reading in place.
InitHooks(name) ==
  {[name |-> name, tension |-> Some(t), faulted |-> f, attached_line |-> TRUE] :
      t \in Tensions, f \in BOOLEAN}
  \cup
  {[name |-> name, tension |-> None, faulted |-> f, attached_line |-> FALSE] :
      f \in BOOLEAN}

DistanceStatus(shipPresent, distance) ==
  IF shipPresent /\ distance <= ProximityThreshold THEN "ACTIVE" ELSE "INACTIVE"

InitRadars(name, shipPresent) ==
  IF shipPresent
  THEN {[name |-> name, ship_distance |-> d, distance_change |-> 0,
         distance_status |-> DistanceStatus(TRUE, d)] : d \in Distances}
  ELSE {[name |-> name, ship_distance |-> Greatest(Distances), distance_change |-> 0,
         distance_status |-> "INACTIVE"]}

\* ------------------------------------------------------ topology builder (4.3)
\* What the builder draws before it names anything: per berth the bollard
\* count, the hooks per bollard and whether a ship is docked.
BerthShapes == [bollards : 1..MaxBollards, hooks : 1..MaxHooks, ship : BOOLEAN]

Topologies == UNION {[1..n -> BerthShapes] : n \in 1..MaxBerths}

ShipsOf(topo) == Cardinality({i \in DOMAIN topo : topo[i].ship})
BollardsOf(topo) == SumSeq([i \in DOMAIN topo |-> topo[i].bollards])
HooksOf(topo) == SumSeq([i \in DOMAIN topo |-> topo[i].bollards * topo[i].hooks])

\* The names a topology asks of each category.
Need(topo) ==
  [c \in Categories |->
     CASE c = "ship" -> ShipsOf(topo)
       [] c = "berth" -> Len(topo)
       [] c = "bollard" -> BollardsOf(topo)
       [] c = "hook" -> HooksOf(topo)]

Needs == {Need(topo) : topo \in Topologies}

\* The pool can still supply every name asked for.
Fits(need, pool) == \A c \in Categories : pool[c] + need[c] <= PoolSize[c]

\* The pool after the builder has drawn the names of a port it can name.
Drawn(need, pool) == [c \in Categories |-> pool[c] + need[c]]

\* The topologies a builder with a fresh pool can name; a used pool can name
\* no others.
FreshTopologies == {topo \in Topologies : Fits(Need(topo), FreshPool)}

\* Names handed out before berth i is built.
ShipsBefore(topo, i) == Cardinality({j \in 1..(i - 1) : topo[j].ship})
BollardsBefore(topo, i) == SumSeq([j \in 1..(i - 1) |-> topo[j].bollards])
HooksBefore(topo, i) ==
  SumSeq([j \in 1..(i - 1) |-> topo[j].bollards * topo[j].hooks])

\* The berths the builder can produce for berth i of topo: structure and
\* names are fixed by topo and the pool, sensor readings are drawn.
BerthsFor(topo, pool, i) ==
  LET shape == topo[i]
      ship == IF shape.ship
              THEN Some([name |-> pool["ship"] + ShipsBefore(topo, i) + 1,
                         vessel_id |-> pool["ship"] + ShipsBefore(topo, i) + 1])
              ELSE None
      bollardName(b) == pool["bollard"] + BollardsBefore(topo, i) + b
      hookName(b, h) ==
        pool["hook"] + HooksBefore(topo, i) + (b - 1) * shape.hooks + h
      bollardChoices(b) ==
        {[name |-> bollardName(b), hooks |-> hs] :
           hs \in SeqProduct([h \in 1..shape.hooks |-> InitHooks(hookName(b, h))])}
  IN {[name |-> pool["berth"] + i,
       bollard_count |-> shape.bollards,
       hook_count |-> shape.bollards * shape.hooks,
       ship |-> ship,
       radars |-> <<r>>,
       bollards |-> bs] :
        r \in InitRadars(1, shape.ship),
        bs \in SeqProduct([b \in 1..shape.bollards |-> bollardChoices(b)])}

\* build_random_port(): the port workers the builder can return for topo.
build_random_port(topo, pool) ==
  {[data |-> [name |-> n, berths |-> bs]] :
     n \in PortNames,
     bs \in SeqProduct([i \in DOMAIN topo |-> BerthsFor(topo, pool, i)])}

\* --------------------------------------------------------- update engine (4.4)
\* Readings one tick can move a tension to: a bounded walk inside [0, 100].
Walk(t) == {u \in Tensions : u - t <= MaxDelta /\ t - u <= MaxDelta}

\* A fault may appear in a tick and never heals.
NextFaulted(f) == IF f THEN {TRUE} ELSE BOOLEAN

\* One hook after one tick.
NextHooks(hook) ==
  IF hook.attached_line
  THEN {[hook EXCEPT !.tension = Some(u), !.faulted = f] :
          u \in Walk(Val(hook.tension)), f \in NextFaulted(hook.faulted)}
       \cup
       {[hook EXCEPT !.tension = None, !.attached_line = FALSE, !.faulted = f] :
          f \in NextFaulted(hook.faulted)}
  ELSE {hook}
       \cup
       {[hook EXCEPT !.tension = Some(u), !.attached_line = TRUE] : u \in Tensions}

Clamp(d) == Min(Max(d, Least(Distances)), Greatest(Distances))

\* One radar after one tick.
NextRadars(radar, shipPresent) ==
  IF shipPresent
  THEN {[radar EXCEPT
           !.distance_change = c,
           !.ship_distance = Clamp(radar.ship_distance + c),
           !.distance_status = DistanceStatus(TRUE, Clamp(radar.ship_distance + c))] :
          c \in DistanceChanges}
  ELSE {radar}

\* The leaf sensors of a port in the order a tick visits them: every hook of
\* every bollard of every berth, then every radar.
HookLeaves(data) ==
  Concat([i \in DOMAIN data.berths |->
    Concat([b \in DOMAIN data.berths[i].bollards |->
      [h \in DOMAIN data.berths[i].bollards[b].hooks |->
         [kind |-> "hook", berth |-> i, bollard |-> b, index |-> h]]])])

RadarLeaves(data) ==
  Concat([i \in DOMAIN data.berths |->
    [r \in DOMAIN data.berths[i].radars |->
       [kind |-> "radar", berth |-> i, bollard |-> 0, index |-> r]]])

Leaves(data) == HookLeaves(data) \o RadarLeaves(data)

\* The port after the tick has rewritten one leaf, in place.
UpdateLeaf(data, leaf) ==
  IF leaf.kind = "hook"
  THEN {[data EXCEPT !.berths[leaf.berth].bollards[leaf.bollard].hooks[leaf.index] = n] :
          n \in NextHooks(data.berths[leaf.berth].bollards[leaf.bollard].hooks[leaf.index])}
  ELSE {[data EXCEPT !.berths[leaf.berth].radars[leaf.index] = n] :
          n \in NextRadars(data.berths[leaf.berth].radars[leaf.index],
                           ~IsNone(data.berths[leaf.berth].ship))}

RECURSIVE UpdateLeaves(_, _)
UpdateLeaves(data, leaves) ==
  IF leaves = <<>> THEN {data}
  ELSE UNION {UpdateLeaves(d, Tail(leaves)) : d \in UpdateLeaf(data, Head(leaves))}

\* PortWorker.update(): one whole tick over the held state.
WorkerUpdate(worker) ==
  {[worker EXCEPT !.data = d] : d \in UpdateLeaves(worker.data, Leaves(worker.data))}


\* ------------------------------------------------------ views of src/app.py
AllBollards(data) ==
  Concat([i \in DOMAIN data.berths |-> data.berths[i].bollards])

AllHooks(data) ==
  Concat([i \in DOMAIN AllBollards(data) |-> AllBollards(data)[i].hooks])

\* len([x for x in s if P(x)]), sum(1 for x in s if P(x))
Count(s, P(_)) == Cardinality({i \in DOMAIN s : P(s[i])})

TensionOrZero(hook) == IF IsNone(hook.tension) THEN 0 ELSE Val(hook.tension)

RadarView(radar) ==
  [name |-> radar.name, ship_distance |-> radar.ship_distance,
   distance_change |-> radar.distance_change, status |-> radar.distance_status]

HookView(hook) ==
  [name |-> hook.name, tension |-> hook.tension, faulted |-> hook.faulted,
   attached_line |-> hook.attached_line]

BollardView(bollard) ==
  [name |-> bollard.name,
   hooks |-> [h \in DOMAIN bollard.hooks |-> HookView(bollard.hooks[h])]]

ShipView(ship) ==
  IF IsNone(ship) THEN None
  ELSE Some([name |-> Val(ship).name, vessel_id |-> Val(ship).vessel_id])

\* One berth as get_berths, get_berth and download_port_data render it.
BerthView(berth) ==
  [name |-> berth.name,
   bollard_count |-> berth.bollard_count,
   hook_count |-> berth.hook_count,
   ship |-> ShipView(berth.ship),
   radars |-> [r \in DOMAIN berth.radars |-> RadarView(berth.radars[r])],
   bollards |-> [b \in DOMAIN berth.bollards |-> BollardView(berth.bollards[b])]]

\* One berth as get_port summarises it.
BerthSummary(berth) ==
  LET active(r) == r.distance_status = "ACTIVE"
  IN [name |-> berth.name,
      bollard_count |-> berth.bollard_count,
      hook_count |-> berth.hook_count,
      ship |-> ShipView(berth.ship),
      active_radars |-> Count(berth.radars, active),
      total_radars |-> Len(berth.radars)]

\* The body of get_port.
PortSummary(data) ==
  [port_name |-> data.name,
   total_berths |-> Len(data.berths),
   berths |-> [i \in DOMAIN data.berths |-> BerthSummary(data.berths[i])]]

\* The body of get_berths.
BerthsView(data) ==
  [port_name |-> data.name,
   berths |-> [i \in DOMAIN data.berths |-> BerthView(data.berths[i])]]

\* The hook loop of get_statistics with the tension of faulted hooks skipped.
HookTallyUnfaulted(data) ==
  LET attached(h) == h.attached_line
      faulted(h) == h.faulted
      hooks == AllHooks(data)
  IN [active_hooks |-> Count(hooks, attached),
      faulted_hooks |-> Count(hooks, faulted),
      total_tension |->
        SumSeq([i \in DOMAIN hooks |->
                  IF hooks[i].faulted THEN 0 ELSE TensionOrZero(hooks[i])])]

\* The hook loop of get_statistics: lines attached, hooks faulted, and the
\* sum of every tension that is not None.
HookTally(data) ==
  LET attached(h) == h.attached_line
      faulted(h) == h.faulted
      hooks == AllHooks(data)
  IN [active_hooks |-> Count(hooks, attached),
      faulted_hooks |-> Count(hooks, faulted),
      total_tension |-> SumSeq([i \in DOMAIN hooks |-> TensionOrZero(hooks[i])])]

\* get_statistics with total_hooks summed from bollard_count.
StatisticsBollards(data) ==
  LET docked(b) == ~IsNone(b.ship)
      tally == HookTally(data)
  IN [port_name |-> data.name,
      total_berths |-> Len(data.berths),
      total_bollards |-> SumSeq([i \in DOMAIN data.berths |-> data.berths[i].bollard_count]),
      total_hooks |-> SumSeq([i \in DOMAIN data.berths |-> data.berths[i].bollard_count]),
      active_hooks |-> tally.active_hooks,
      faulted_hooks |-> tally.faulted_hooks,
      total_tension |-> tally.total_tension,
      ships_docked |-> Count(data.berths, docked)]

\* The body of get_statistics.
Statistics(data) ==
  LET docked(b) == ~IsNone(b.ship)
      tally == HookTally(data)
  IN [port_name |-> data.name,
      total_berths |-> Len(data.berths),
      total_bollards |-> SumSeq([i \in DOMAIN data.berths |-> data.berths[i].bollard_count]),
      total_hooks |-> SumSeq([i \in DOMAIN data.berths |-> data.berths[i].hook_count]),
      active_hooks |-> tally.active_hooks,
      faulted_hooks |-> tally.faulted_hooks,
      total_tension |-> tally.total_tension,
      ships_docked |-> Count(data.berths, docked)]

\* A hook counts in a severity band when it is unfaulted and reads within it.
InBand(hook, lo, hi) ==
  ~hook.faulted /\ ~IsNone(hook.tension)
  /\ lo <= Val(hook.tension) /\ Val(hook.tension) <= hi

\* bollard_info of get_tension_analysis ("No Ship" and "N/A" are 0).
BollardInfo(berth, bollard) ==
  LET critical(h) == ~h.faulted /\ ~IsNone(h.tension) /\ Val(h.tension) >= CriticalMin
      dangerous(h) == InBand(h, DangerousMin, DangerousMax)
      attention(h) == InBand(h, AttentionMin, AttentionMax)
      faulted(h) == h.faulted
  IN [berth_name |-> berth.name,
      bollard_name |-> bollard.name,
      ship_name |-> IF IsNone(berth.ship) THEN 0 ELSE Val(berth.ship).name,
      vessel_id |-> IF IsNone(berth.ship) THEN 0 ELSE Val(berth.ship).vessel_id,
      critical_count |-> Count(bollard.hooks, critical),
      dangerous_count |-> Count(bollard.hooks, dangerous),
      attention_count |-> Count(bollard.hooks, attention),
      faulted_count |-> Count(bollard.hooks, faulted),
      total_tension |->
        SumSeq([h \in DOMAIN bollard.hooks |-> TensionOrZero(bollard.hooks[h])]),
      hooks |-> [h \in DOMAIN bollard.hooks |-> HookView(bollard.hooks[h])]]

\* all_bollards before the sort: every bollard of every berth, in order.
CollectBollards(data) ==
  Concat([i \in DOMAIN data.berths |->
    [b \in DOMAIN data.berths[i].bollards |->
       BollardInfo(data.berths[i], data.berths[i].bollards[b])]])

\* The sort key of get_tension_analysis, compared as Python compares tuples.
SortKey(x) == <<x.critical_count, x.faulted_count, x.total_tension>>

KeyLess(a, b) ==
  \/ a[1] < b[1]
  \/ a[1] = b[1] /\ a[2] < b[2]
  \/ a[1] = b[1] /\ a[2] = b[2] /\ a[3] < b[3]

\* Insert x behind every element whose key is not smaller: descending and
\* stable, as list.sort(reverse=True) is.
RECURSIVE InsertDesc(_, _)
InsertDesc(sorted, x) ==
  IF sorted = <<>> THEN <<x>>
  ELSE IF KeyLess(SortKey(Head(sorted)), SortKey(x))
       THEN <<x>> \o sorted
       ELSE <<Head(sorted)>> \o InsertDesc(Tail(sorted), x)

RECURSIVE SortFrom(_, _)
SortFrom(sorted, rest) ==
  IF rest = <<>> THEN sorted
  ELSE SortFrom(InsertDesc(sorted, Head(rest)), Tail(rest))

\* The same insertion, ascending.
RECURSIVE InsertAsc(_, _)
InsertAsc(sorted, x) ==
  IF sorted = <<>> THEN <<x>>
  ELSE IF KeyLess(SortKey(x), SortKey(Head(sorted)))
       THEN <<x>> \o sorted
       ELSE <<Head(sorted)>> \o InsertAsc(Tail(sorted), x)

RECURSIVE SortAscFrom(_, _)
SortAscFrom(sorted, rest) ==
  IF rest = <<>> THEN sorted
  ELSE SortAscFrom(InsertAsc(sorted, Head(rest)), Tail(rest))

\* all_bollards.sort(key=...) without reverse=True.
SortBollardsAscending(bollards) == SortAscFrom(<<>>, bollards)

\* all_bollards.sort(key=..., reverse=True)
SortBollards(bollards) == SortFrom(<<>>, bollards)

\* The body of get_tension_analysis.
Analysis(data) ==
  LET all_bollards == SortBollards(CollectBollards(data))
  IN [port_name |-> data.name,
      total_bollards |-> Len(all_bollards),
      bollards |-> all_bollards]

\* The body of download_port_data, stamped with the time of the request.
Download(data, now) ==
  [timestamp |-> now,
   port_name |-> data.name,
   total_berths |-> Len(data.berths),
   berths |-> [i \in DOMAIN data.berths |-> BerthView(data.berths[i])]]

\* ------------------------------------------------------------ request handlers
Reply(op, status, body) == [op |-> op, status |-> status, body |-> body]

\* The 404 of the handlers the API documentation lists ...
NoPortData(op) ==
  Reply(op, 404, [error |-> "No port data available. Call /api/port first"])

\* ... and of the analysis and download handlers.
NoPortDataGenerate(op) ==
  Reply(op, 404, [error |-> "No port data available. Generate port data first"])

GenerationFailed ==
  Reply("port", 500, [error |-> "Failed to generate port: names exhausted"])

Init ==
  /\ port_worker = None
  /\ used = FreshPool
  /\ response = Reply("start", 0, [error |-> "no request yet"])
  /\ tick = 0
  /\ rewritten = FALSE
  /\ generation_requests = 0

\* GET /api/port when the builder draws topo and can name it.
GetPortBuilt(topo) ==
  LET pool == reset_generator_state(used)
  IN /\ Fits(Need(topo), pool)
     /\ used' = Drawn(Need(topo), pool)
     /\ \E w \in build_random_port(topo, pool) :
          /\ port_worker' = Some(w)
          /\ response' = Reply("port", 200, PortSummary(w.data))
     /\ UNCHANGED <<tick, rewritten>>

\* get_port with port_worker cleared before the try block.
GetPortFailedCleared(need) ==
  LET pool == reset_generator_state(used)
  IN /\ ~Fits(need, pool)
     /\ used' = pool
     /\ response' = GenerationFailed
     /\ port_worker' = None
     /\ UNCHANGED <<tick, rewritten>>

\* GET /api/port when the builder runs out of names: the except branch.  The
\* names the abandoned build had drawn are not counted; the next request
\* reloads the module before it draws any.
GetPortFailed(need) ==
  LET pool == reset_generator_state(used)
  IN /\ ~Fits(need, pool)
     /\ used' = pool
     /\ response' = GenerationFailed
     /\ UNCHANGED <<port_worker, tick, rewritten>>

GetPortRequest ==
  \/ \E topo \in FreshTopologies : GetPortBuilt(topo)
  \/ \E need \in Needs : GetPortFailed(need)

\* GET /api/port
GetPort == GetPortRequest /\ UNCHANGED generation_requests

\* GET /api/port, counted.
GetPortCounted ==
  /\ GetPortRequest
  /\ generation_requests' = Min(generation_requests + 1, MaxGenerations)

\* GET /api/port/berths
GetBerths ==
  /\ response' = IF IsNone(port_worker) THEN NoPortData("berths")
                 ELSE Reply("berths", 200, BerthsView(Val(port_worker).data))
  /\ UNCHANGED <<port_worker, used, tick, rewritten, generation_requests>>

\* Berth names a request can ask for: every name of the pool and one more.
RequestedBerths == NamePool["berth"] \cup {Cardinality(NamePool["berth"]) + 1}

\* next((b for b in port_data.berths if b.name == berth_name), None)
FindBerth(data, berth_name) ==
  LET matches == {i \in DOMAIN data.berths : data.berths[i].name = berth_name}
  IN IF matches = {} THEN None
     ELSE Some(data.berths[CHOOSE i \in matches : \A j \in matches : i <= j])

\* GET /api/port/berth/<berth_name>
GetBerth ==
  \E berth_name \in RequestedBerths :
    /\ response' =
         IF IsNone(port_worker) THEN NoPortData("berth")
         ELSE LET berth == FindBerth(Val(port_worker).data, berth_name)
              IN IF IsNone(berth)
                 THEN Reply("berth", 404,
                            [error |-> "Berth not found", berth_name |-> berth_name])
                 ELSE Reply("berth", 200, BerthView(Val(berth)))
    /\ UNCHANGED <<port_worker, used, tick, rewritten, generation_requests>>

UpdateDone(worker) ==
  Reply("update", 200,
        [message |-> "Port data updated successfully", port_name |-> worker.data.name])

\* update_port without the check for a missing worker: None has no update().
UpdatePortUnguarded ==
  /\ tick = 0
  /\ \/ /\ IsNone(port_worker)
        /\ response' = Reply("update", 500, [error |-> "Internal Server Error"])
        /\ UNCHANGED port_worker
     \/ /\ ~IsNone(port_worker)
        /\ \E w \in WorkerUpdate(Val(port_worker)) :
             /\ port_worker' = Some(w)
             /\ response' = UpdateDone(w)
  /\ UNCHANGED <<used, tick, rewritten, generation_requests>>

\* update_port that rebuilds the port instead of ticking it.
UpdatePortRebuilds ==
  /\ tick = 0
  /\ \/ /\ IsNone(port_worker)
        /\ response' = NoPortData("update")
        /\ UNCHANGED port_worker
     \/ /\ ~IsNone(port_worker)
        /\ \E topo \in FreshTopologies :
             \E w \in build_random_port(topo, FreshPool) :
                /\ port_worker' = Some(w)
                /\ response' = UpdateDone(w)
  /\ UNCHANGED <<used, tick, rewritten, generation_requests>>

\* POST /api/port/update, the whole tick in one step.
UpdatePort ==
  /\ tick = 0
  /\ \/ /\ IsNone(port_worker)
        /\ response' = NoPortData("update")
        /\ UNCHANGED port_worker
     \/ /\ ~IsNone(port_worker)
        /\ \E w \in WorkerUpdate(Val(port_worker)) :
             /\ port_worker' = Some(w)
             /\ response' = UpdateDone(w)
  /\ UNCHANGED <<used, tick, rewritten, generation_requests>>

\* GET /api/port/raw
GetRawPort ==
  /\ response' = IF IsNone(port_worker) THEN NoPortData("raw")
                 ELSE Reply("raw", 200, [raw_data |-> Val(port_worker).data])
  /\ UNCHANGED <<port_worker, used, tick, rewritten, generation_requests>>

\* GET /api/port/statistics
GetStatistics ==
  /\ response' = IF IsNone(port_worker) THEN NoPortData("statistics")
                 ELSE Reply("statistics", 200, Statistics(Val(port_worker).data))
  /\ UNCHANGED <<port_worker, used, tick, rewritten, generation_requests>>

\* The held port with 0 written to every tension that is None.
ZeroedTensions(worker) ==
  LET zeroed(hook) == IF IsNone(hook.tension) THEN [hook EXCEPT !.tension = Some(0)]
                      ELSE hook
  IN [worker EXCEPT !.data.berths =
        [i \in DOMAIN worker.data.berths |->
           [worker.data.berths[i] EXCEPT !.bollards =
              [b \in DOMAIN worker.data.berths[i].bollards |->
                 [worker.data.berths[i].bollards[b] EXCEPT !.hooks =
                    [h \in DOMAIN worker.data.berths[i].bollards[b].hooks |->
                       zeroed(worker.data.berths[i].bollards[b].hooks[h])]]]]]]

\* get_tension_analysis that stores its defaulted tensions in the hooks.
GetTensionAnalysisWritesBack ==
  /\ response' = IF IsNone(port_worker) THEN NoPortDataGenerate("analysis")
                 ELSE Reply("analysis", 200, Analysis(Val(port_worker).data))
  /\ port_worker' = IF IsNone(port_worker) THEN None
                    ELSE Some(ZeroedTensions(Val(port_worker)))
  /\ UNCHANGED <<used, tick, rewritten, generation_requests>>

\* GET /api/port/analysis
GetTensionAnalysis ==
  /\ response' = IF IsNone(port_worker) THEN NoPortDataGenerate("analysis")
                 ELSE Reply("analysis", 200, Analysis(Val(port_worker).data))
  /\ UNCHANGED <<port_worker, used, tick, rewritten, generation_requests>>

\* GET /api/port/download
DownloadPortData ==
  \E now \in Instants :
    /\ response' = IF IsNone(port_worker) THEN NoPortDataGenerate("download")
                   ELSE Reply("download", 200, Download(Val(port_worker).data, now))
    /\ UNCHANGED <<port_worker, used, tick, rewritten, generation_requests>>

\* The requests that only read the held port.
ReadRequest ==
  \/ GetBerths
  \/ GetBerth
  \/ GetRawPort
  \/ GetStatistics
  \/ GetTensionAnalysis
  \/ DownloadPortData

\* Requests served one at a time.
Next ==
  \/ GetPort
  \/ UpdatePort
  \/ GetBerths
  \/ GetBerth
  \/ GetRawPort
  \/ GetStatistics
  \/ GetTensionAnalysis
  \/ DownloadPortData

Spec == Init /\ [][Next]_vars

\* Generations and updates, with the generation requests counted.
NextGenerations ==
  \/ GetPortCounted
  \/ UpdatePort

SpecGenerations == Init /\ [][NextGenerations]_vars

\* ------------------------------------------- requests served by several threads
\* app.run serves each request in its own thread and nothing locks
\* port_worker.  The interleavings followed are those of one update with any
\* number of reads; a generation request is served between two ticks.
\* update_port passes its check and calls port_worker.update().
UpdateEnter ==
  /\ tick = 0
  /\ ~IsNone(port_worker)
  /\ tick' = 1
  /\ UNCHANGED <<port_worker, used, response, rewritten, generation_requests>>

\* update_port finds no worker.
UpdateRefused ==
  /\ IsNone(port_worker)
  /\ response' = NoPortData("update")
  /\ UNCHANGED <<port_worker, used, tick, rewritten, generation_requests>>

\* The tick rewrites its next leaf in the held state.
UpdateTick ==
  /\ ~IsNone(port_worker)
  /\ tick >= 1
  /\ tick <= Len(Leaves(Val(port_worker).data))
  /\ \E d \in UpdateLeaf(Val(port_worker).data, Leaves(Val(port_worker).data)[tick]) :
       /\ port_worker' = Some([Val(port_worker) EXCEPT !.data = d])
       /\ rewritten' = (rewritten \/ d # Val(port_worker).data)
  /\ tick' = tick + 1
  /\ UNCHANGED <<used, response, generation_requests>>

\* update() has returned: update_port answers with the name of the held port.
UpdateReturn ==
  /\ ~IsNone(port_worker)
  /\ tick = Len(Leaves(Val(port_worker).data)) + 1
  /\ response' = UpdateDone(Val(port_worker))
  /\ tick' = 0
  /\ rewritten' = FALSE
  /\ UNCHANGED <<port_worker, used, generation_requests>>

NextThreaded ==
  \/ tick = 0 /\ GetPort
  \/ UpdateEnter
  \/ UpdateRefused
  \/ UpdateTick
  \/ UpdateReturn
  \/ GetBerths
  \/ GetBerth
  \/ GetRawPort
  \/ GetStatistics
  \/ GetTensionAnalysis
  \/ DownloadPortData

SpecThreaded == Init /\ [][NextThreaded]_vars


\* -------------------------------------------------------------------- claims
\* The handlers that need a held port.
NeedsState == {"berths", "berth", "update", "raw", "statistics", "analysis", "download"}
ReadOps == {"berths", "berth", "raw", "statistics", "analysis", "download"}

NoStateBodies ==
  {[error |-> "No port data available. Call /api/port first"],
   [error |-> "No port data available. Generate port data first"]}

HeldData == Val(port_worker).data

\* C1: while no generation has succeeded (port_worker is None), every request
\* that needs a held port is answered with the 404 "no port data" error and
\* leaves port_worker None.
NoStateYetReported ==
  [][(IsNone(port_worker) /\ response'.op \in NeedsState)
        => /\ response'.status = 404
           /\ response'.body \in NoStateBodies
           /\ IsNone(port_worker')]_vars

\* C1 witness: a statistics request was refused while nothing is held.
NoStateYetSeen ==
  IsNone(port_worker) /\ response.op = "statistics" /\ response.status = 404

\* C2: a generation request that fails answers 500 with the error and leaves
\* the held port worker exactly as it was.
FailedGenerationKeepsState ==
  [][response'.op = "port" /\ response'.status # 200
        => /\ response'.status = 500
           /\ "error" \in DOMAIN response'.body
           /\ port_worker' = port_worker]_vars

\* C2 witness: a generation failed while a complete port is held.
FailedGenerationSeen ==
  ~IsNone(port_worker) /\ response.op = "port" /\ response.status = 500

\* A tick is under way: it has given some leaf a new value and has not yet
\* visited every leaf.
MidTick == ~IsNone(port_worker) /\ rewritten /\ tick <= Len(Leaves(HeldData))

\* C3: no read is served from a state in which a tick has rewritten some
\* leaves and not yet the others.
NoTornRead == [][ReadRequest => ~MidTick]_vars

\* C4: every hook with a tension has its line attached, and the total_tension
\* of the statistics view is the sum of the tensions of the attached hooks.
TensionImpliesAttached ==
  ~IsNone(port_worker) =>
    LET hooks == AllHooks(HeldData)
    IN /\ \A i \in DOMAIN hooks : ~IsNone(hooks[i].tension) => hooks[i].attached_line
       /\ (response.op = "statistics" /\ response.status = 200) =>
            response.body.total_tension =
              SumSeq([i \in DOMAIN hooks |->
                        IF hooks[i].attached_line THEN Val(hooks[i].tension) ELSE 0])

\* C4 witness: after an update the port holds a detached hook, without
\* tension, next to an attached faulted one that carries a tension.
DetachedHookSeen ==
  /\ response.op = "update" /\ response.status = 200
  /\ \E i, j \in DOMAIN AllHooks(HeldData) :
       /\ ~AllHooks(HeldData)[i].attached_line /\ IsNone(AllHooks(HeldData)[i].tension)
       /\ AllHooks(HeldData)[j].attached_line /\ AllHooks(HeldData)[j].faulted

\* Everything of a port but its leaf sensor fields.
StructureOf(data) ==
  [name |-> data.name,
   berths |->
     [i \in DOMAIN data.berths |->
        [name |-> data.berths[i].name,
         bollard_count |-> data.berths[i].bollard_count,
         hook_count |-> data.berths[i].hook_count,
         ship |-> data.berths[i].ship,
         radars |-> [r \in DOMAIN data.berths[i].radars |-> data.berths[i].radars[r].name],
         bollards |->
           [b \in DOMAIN data.berths[i].bollards |->
              [name |-> data.berths[i].bollards[b].name,
               hooks |-> [h \in DOMAIN data.berths[i].bollards[b].hooks |->
                            data.berths[i].bollards[b].hooks[h].name]]]]]]

Structure(worker) == IF IsNone(worker) THEN None ELSE Some(StructureOf(Val(worker).data))

\* C5: an update request changes no structural element of the held port:
\* names, counts and ship assignments are after it what they were before.
UpdateKeepsStructure ==
  [][response'.op = "update" => Structure(port_worker') = Structure(port_worker)]_vars

\* C5 witness: an update has moved a radar of a port of two berths.
UpdatedPortSeen ==
  /\ response.op = "update" /\ response.status = 200
  /\ Len(HeldData.berths) = 2
  /\ \E i \in DOMAIN HeldData.berths : HeldData.berths[i].radars[1].distance_change # 0

\* C6: whatever earlier generations have drawn, a generation request succeeds
\* for every topology that a first generation could name, and the names a
\* successful generation leaves used are those of its own port only.
FreshPoolEveryGeneration ==
  /\ \A topo \in FreshTopologies : ENABLED GetPortBuilt(topo)
  /\ (response.op = "port" /\ response.status = 200) =>
        /\ used["berth"] = Len(HeldData.berths)
        /\ used["hook"] = Len(AllHooks(HeldData))
        /\ HeldData.berths[1].name = 1

\* C6 witness: a second generation request has succeeded.
LaterGenerationSeen ==
  generation_requests >= 2 /\ response.op = "port" /\ response.status = 200

\* C7: bollard_count and hook_count of every berth are the numbers of its
\* bollards and hooks; the totals of the statistics view are the numbers of
\* bollards and hooks it iterates and bound its active and faulted counts.
CountsMatchStructure ==
  ~IsNone(port_worker) =>
    /\ \A i \in DOMAIN HeldData.berths :
         LET berth == HeldData.berths[i]
         IN /\ berth.bollard_count = Len(berth.bollards)
            /\ berth.hook_count =
                 SumSeq([b \in DOMAIN berth.bollards |-> Len(berth.bollards[b].hooks)])
    /\ (response.op = "statistics" /\ response.status = 200) =>
         /\ response.body.total_bollards = Len(AllBollards(HeldData))
         /\ response.body.total_hooks = Len(AllHooks(HeldData))
         /\ response.body.active_hooks <= response.body.total_hooks
         /\ response.body.faulted_hooks <= response.body.total_hooks

\* C7 witness: statistics of a port whose bollard carries two hooks, one faulted.
CountedPortSeen ==
  /\ response.op = "statistics" /\ response.status = 200
  /\ response.body.total_hooks = 2 /\ response.body.total_bollards = 1
  /\ response.body.faulted_hooks = 1 /\ response.body.active_hooks = 2

\* The ports that differ from data only in the tensions faulted hooks carry.
RECURSIVE FaultedVariantsFrom(_, _)
FaultedVariantsFrom(data, leaves) ==
  IF leaves = <<>> THEN {data}
  ELSE LET leaf == Head(leaves)
           hook == data.berths[leaf.berth].bollards[leaf.bollard].hooks[leaf.index]
           rest == FaultedVariantsFrom(data, Tail(leaves))
       IN IF hook.faulted /\ ~IsNone(hook.tension)
          THEN {[d EXCEPT !.berths[leaf.berth].bollards[leaf.bollard].hooks[leaf.index].tension
                            = Some(t)] : d \in rest, t \in Tensions}
          ELSE rest

FaultedVariants(data) == FaultedVariantsFrom(data, HookLeaves(data))

BandCounts(x) == <<x.critical_count, x.dangerous_count, x.attention_count>>

\* What the analysis view says of the priorities: the order of the bollards
\* and the band counts of each.
Priorities(data) ==
  [k \in DOMAIN Analysis(data).bollards |->
     <<Analysis(data).bollards[k].berth_name,
       Analysis(data).bollards[k].bollard_name,
       BandCounts(Analysis(data).bollards[k])>>]

\* C8: the analysis view gives the same band counts and the same order of
\* bollards for any two ports that differ only in the tensions of faulted hooks.
FaultedTensionIgnored ==
  ~IsNone(port_worker) =>
    \A v \in FaultedVariants(HeldData) : Priorities(v) = Priorities(HeldData)

\* ">= 86 and unfaulted", counted over the hooks an entry of the view lists.
CriticalHooks(entry) ==
  Cardinality({h \in DOMAIN entry.hooks :
                 /\ ~entry.hooks[h].faulted
                 /\ ~IsNone(entry.hooks[h].tension)
                 /\ Val(entry.hooks[h].tension) >= 86})

FaultedHooks(entry) == Cardinality({h \in DOMAIN entry.hooks : entry.hooks[h].faulted})

TensionOf(entry) ==
  SumSeq([h \in DOMAIN entry.hooks |->
            IF IsNone(entry.hooks[h].tension) THEN 0 ELSE Val(entry.hooks[h].tension)])

\* entry a comes no later than entry b in a descending three-key order.
NotBelow(a, b) ==
  \/ CriticalHooks(a) > CriticalHooks(b)
  \/ CriticalHooks(a) = CriticalHooks(b) /\ FaultedHooks(a) > FaultedHooks(b)
  \/ /\ CriticalHooks(a) = CriticalHooks(b)
     /\ FaultedHooks(a) = FaultedHooks(b)
     /\ TensionOf(a) >= TensionOf(b)

\* C9: the analysis view lists every bollard of every berth exactly once, with
\* its hooks, each entry no lower than the next in the descending order of
\* (critical hooks, faulted hooks, total tension).
AnalysisSortedDescending ==
  (response.op = "analysis" /\ response.status = 200) =>
    LET out == response.body.bollards
    IN /\ Len(out) = Len(AllBollards(HeldData))
       /\ response.body.total_bollards = Len(out)
       /\ \A i \in DOMAIN HeldData.berths :
            \A b \in DOMAIN HeldData.berths[i].bollards :
              Cardinality({k \in DOMAIN out :
                 /\ out[k].berth_name = HeldData.berths[i].name
                 /\ out[k].bollard_name = HeldData.berths[i].bollards[b].name
                 /\ out[k].hooks = BollardView(HeldData.berths[i].bollards[b]).hooks}) = 1
       /\ \A k \in 1..(Len(out) - 1) : NotBelow(out[k], out[k + 1])

\* C9 witness: the view lists the bollard of the second berth first, on its
\* faulted hook alone.
ReorderedAnalysisSeen ==
  /\ response.op = "analysis" /\ response.status = 200
  /\ Len(response.body.bollards) = 2
  /\ response.body.bollards[1].berth_name = 2
  /\ response.body.bollards[1].critical_count = response.body.bollards[2].critical_count
  /\ response.body.bollards[1].faulted_count > response.body.bollards[2].faulted_count

\* C10: a read request, the berth-not-found case included, leaves the held
\* port worker as it is; only generation and update requests change it.
ReadsChangeNothing ==
  [][/\ response'.op \in ReadOps => port_worker' = port_worker
     /\ port_worker' # port_worker => response'.op \in {"port", "update"}]_vars

\* C10 witness: a berth that does not exist was asked of a held port.
BerthNotFoundSeen ==
  ~IsNone(port_worker) /\ response.op = "berth" /\ response.status = 404

====
